---- MODULE Spec2Model ----
(***************************************************************************)
(* Model of the YouTube transcript application: the generate-transcript    *)
(* request of main.py (caption lookup first, model transcription as the    *)
(* fallback), get_youtube_transcript of youtube_utils.py, and              *)
(* TranscriptionService of transcription.py (download_audio with proxy     *)
(* rotation and retry, transcribe_audio with its single-pass and chunked   *)
(* paths, process_video), and TranslationService.translate_text of         *)
(* translator.py under its retry decorator.                                *)
(*                                                                         *)
(* Text is a sequence of characters, each character a string; a word that  *)
(* the model needs to tell apart but never looks into (a transcribed word, *)
(* an error message) is one character.  Python's None is the record None;  *)
(* a value v is Some(v).                                                   *)
(***************************************************************************)
EXTENDS Integers, Sequences, FiniteSets, TLC

VARIABLES
    pc,          \* position of the single request thread
    faultyFs,    \* environment: whether os.remove may fail
    session,     \* st.session_state['transcript'] (None when unset)
    sessionBefore, \* its value when the request began
    lookup,      \* what the caption collaborator offered to the last lookup
    capOut,      \* outcome of get_youtube_transcript: [raised, val]
    pvCalls,     \* process_video invocations in this request
    fs,          \* the files download_audio names: temp_file and temp_file[:-4]
    proxyIdx,    \* ProxyManager.current_index
    rot,         \* proxy rotations begun in this download_audio call
    mi,          \* index of the download method being tried (1 or 2)
    att,         \* attempts made by the current _download_with_ytdlp call
    delay,       \* _download_with_ytdlp's delay, in milliseconds
    sleeps,      \* the backoff sleeps of the current _download_with_ytdlp call
    ret,         \* what the last download method call delivered
    lastError,   \* download_audio's last_error
    duration,    \* the duration download_audio returned, in half seconds
    audioPath,   \* whether process_video's audio_path is set
    exc,         \* the exception in flight (None when there is none)
    cause,       \* the first error raised in this process_video call
    modelLoaded, \* TranscriptionService._model_loaded
    cst,         \* chunked path: state of each segment's future
    chunkFs,     \* chunked path: state of each segment's temporary file
    chunkRes,    \* chunked path: what _transcribe_chunk returned per segment
    results,     \* chunked path: the list built from as_completed
    text,        \* transcribe_audio's text
    pvRes,       \* what process_video delivered to main: [kind, val]
    cleanups,    \* cleanup passes over the parent audio file in this request
    dlRemoved,   \* the files download_audio's exception handler removed
    entry,       \* the operation the caller invoked
    calls,       \* the download method calls of this download_audio call
    taRes,       \* what transcribe_audio delivered to a direct caller
    splitCalls,  \* the windows _split_audio was called with in this call
    modelCalls,  \* model.transcribe calls of this transcribe_audio call
    trText,      \* translate_text: the text argument
    trLang,      \* translate_text: the target_lang argument
    attempt,     \* translate_text: the retry decorator's attempt number
    retryCount,  \* translate_text: retry_count
    chunkIdx,    \* translate_text: the chunk the for loop is at
    translatedChunks, \* translate_text: translated_chunks
    backendCalls,     \* translate_text: translator.translate calls so far
    waits,       \* translate_text: the sleeps between attempts, in seconds
    outcomes,    \* translate_text: how often the backend had each outcome
    raised,      \* translate_text: the error each failed attempt raised
    trRes,       \* translate_text: what the caller received
    viEnv,       \* get_video_info: what the two metadata sources offer
    viRes,       \* get_video_info: what the caller received
    proxyCalls,  \* the proxies get_next_proxy returned since construction
    chunkPath    \* chunked path: the chunk_file of each running worker

vars == <<pc, faultyFs, session, sessionBefore, lookup, capOut, pvCalls, fs, proxyIdx,
          rot, mi, att, delay, sleeps, ret, lastError, duration, audioPath, exc,
          cause, modelLoaded, cst, chunkFs, chunkRes, results, text, pvRes,
          cleanups, dlRemoved, entry, calls, taRes, splitCalls, modelCalls, trText,
          trLang, attempt, retryCount, chunkIdx, translatedChunks,
          backendCalls, waits, outcomes, raised, trRes, viEnv, viRes,
          proxyCalls, chunkPath>>

----------------------------------------------------------------------------
(* Bounds of the model *)

MaxEntries == 2
MaxDuration == 300
CpuCount == 2
MaxFaults == 1
MaxTextLen == 12000
MaxBackendFaults == 2
MaxProxyCalls == 7
MaxTicks == 1

(* Program constants *)

ChunkSize == 120
MaxRetries == 3
InitialDelay == 1000
ProxyRotations == 3
NumProxies == 3
DefaultDuration == 600
MaxChunkLength == 4999
MaxAttempts == 3
WaitMultiplier == 1
WaitMin == 4
WaitMax == 10
NetworkRetries == 3

----------------------------------------------------------------------------
(* Values *)

None == [isNone |-> TRUE, val |-> <<>>]
Some(v) == [isNone |-> FALSE, val |-> v]

\* Python truthiness of a str-or-None value
Truthy(o) == ~o.isNone /\ o.val # <<>>

RECURSIVE Join(_)
\* ' '.join(parts)
Join(parts) ==
    IF parts = <<>> THEN <<>>
    ELSE IF Len(parts) = 1 THEN parts[1]
    ELSE parts[1] \o <<" ">> \o Join(Tail(parts))

RECURSIVE LStrip(_)
LStrip(s) == IF s # <<>> /\ s[1] = " " THEN LStrip(Tail(s)) ELSE s

RECURSIVE RStrip(_)
RStrip(s) ==
    IF s # <<>> /\ s[Len(s)] = " " THEN RStrip(SubSeq(s, 1, Len(s) - 1)) ELSE s

\* str.strip()
Strip(s) == RStrip(LStrip(s))

\* ValueError(f"<prefix>{str(e)}")
Wrap(prefix, e) == <<prefix>> \o e

Err403 == <<"HTTP Error 403">>
ErrYtdlp == <<"yt-dlp error">>
ErrRequests == <<"requests error">>
ErrNotFound == <<"Downloaded audio file not found">>
ErrRemove == <<"os.remove failed">>
ErrEmpty == <<"Audio file is empty">>
ErrMissing == <<"Audio file not found">>
ErrLoad == <<"model load failed">>
ErrModel == <<"model failed">>
ErrPool == <<"process pool broken">>
ErrMemory == <<"memory cleanup failed">>

\* a faulty variant: every error is taken for the 403 signal
Is403Always(e) == TRUE

\* "HTTP Error 403" in str(e)
Is403(e) == \E i \in 1..Len(e) : e[i] = "HTTP Error 403"

\* the errors yt-dlp raises: the 403 signal, and any other
YtdlpErrors == {Err403, ErrYtdlp}

----------------------------------------------------------------------------
(* youtube_utils.get_youtube_transcript *)

Langs == {"en", "es"}

\* a caption track of the collaborator: manually created or generated, and
\* its language code (a transcript list holds one track per kind and code)
Tracks == [manual : BOOLEAN, lang : Langs]

\* TranscriptList.find_manually_created_transcript(codes): the set holding
\* the track found, empty when the call raises NoTranscriptFound
FindManuallyCreated(tracks, codes) ==
    {t \in tracks : t.manual /\ t.lang \in codes}

\* TranscriptList.find_generated_transcript(codes)
FindGenerated(tracks, codes) ==
    {t \in tracks : ~t.manual /\ t.lang \in codes}

\* TranscriptList.find_transcript(codes): manually created before generated
FindTranscript(tracks, codes) ==
    IF FindManuallyCreated(tracks, codes) # {}
    THEN FindManuallyCreated(tracks, codes)
    ELSE FindGenerated(tracks, codes)

\* the third lookup passes no language codes, the fourth passes ['en']
AnyManualCodes == {}
AnyGeneratedCodes == {"en"}

\* the nested try/except chain choosing the track; empty: return None
SelectTrack(tracks) ==
    IF FindManuallyCreated(tracks, {"en"}) # {}
    THEN FindManuallyCreated(tracks, {"en"})
    ELSE IF FindTranscript(tracks, {"en"}) # {}
    THEN FindTranscript(tracks, {"en"})
    ELSE IF FindManuallyCreated(tracks, AnyManualCodes) # {}
    THEN FindManuallyCreated(tracks, AnyManualCodes)
    ELSE FindGenerated(tracks, AnyGeneratedCodes)

Terminal == {".", "!", "?"}

\* a faulty variant: the '.' is added whatever the entry ends in
NormalizeEntryAlways(t) == IF Strip(t) # <<>> THEN Strip(t) \o <<".">> ELSE <<>>

\* entry['text'].strip(), with '.' added when it does not end in punctuation
NormalizeEntry(t) ==
    LET s == Strip(t)
    IN  IF s # <<>> /\ s[Len(s)] \notin Terminal THEN s \o <<".">> ELSE s

\* ' '.join(transcript_text)
TranscriptText(entries) ==
    Join([i \in 1..Len(entries) |-> NormalizeEntry(entries[i])])

\* the body of the outer try: raised, or the value returned
TranscriptBody(lk) ==
    IF ~lk.listOk THEN [raised |-> TRUE, val |-> None]
    ELSE IF SelectTrack(lk.tracks) = {} THEN [raised |-> FALSE, val |-> None]
    ELSE IF ~lk.fetchOk THEN [raised |-> TRUE, val |-> None]
    ELSE [raised |-> FALSE, val |-> Some(TranscriptText(lk.entries))]

\* a faulty variant: without the outer "except Exception: return None"
GetYoutubeTranscriptUncaught(lk) == TranscriptBody(lk)

GetYoutubeTranscript(lk) ==
    IF TranscriptBody(lk).raised
    THEN [raised |-> FALSE, val |-> None]
    ELSE TranscriptBody(lk)

\* what the caption collaborator may offer
EntryTexts == {<<>>, <<"a">>, <<"b", "!">>, <<" ">>, <<" ", "c", " ">>}

EntryLists ==
    UNION {[1..n -> EntryTexts] : n \in 0..MaxEntries}

NoLookup ==
    [listOk |-> TRUE, tracks |-> {}, found |-> FALSE, fetchOk |-> TRUE,
     entries |-> <<>>]

Lookups ==
    {[NoLookup EXCEPT !.listOk = FALSE]}
    \cup {[NoLookup EXCEPT !.tracks = ts, !.found = (SelectTrack(ts) # {})] :
            ts \in {x \in SUBSET Tracks : SelectTrack(x) = {}}}
    \cup {[NoLookup EXCEPT !.tracks = ts, !.found = TRUE, !.fetchOk = FALSE] :
            ts \in {x \in SUBSET Tracks : SelectTrack(x) # {}}}
    \cup {[NoLookup EXCEPT !.tracks = ts, !.found = TRUE, !.entries = es] :
            ts \in {x \in SUBSET Tracks : SelectTrack(x) # {}},
            es \in EntryLists}


----------------------------------------------------------------------------
(* Files *)

\* temp_file ("mp3") and temp_file[:-4] ("raw", the downloader's output
\* template, where it writes before converting)
FileNames == {"mp3", "raw"}
FileStates == {"absent", "empty", "data"}

NoFiles == [n \in FileNames |-> "absent"]

\* os.path.exists
Exists(st) == st # "absent"

\* whether an os.remove call may fail is the environment's choice
RmOutcomes == IF faultyFs THEN BOOLEAN ELSE {TRUE}

----------------------------------------------------------------------------
(* TranscriptionService._download_with_ytdlp and _download_with_requests *)

NoRet == [kind |-> "none", err |-> <<>>]

\* self.download_methods, in the order download_audio tries them
DownloadMethods == <<"ytdlp", "requests">>

\* the proxy get_next_proxy returned last: the entry before current_index
\* ProxyManager.proxy_list: the direct connection (None) and two proxies
ProxyList == <<"direct", "proxy1", "proxy2">>

\* a faulty variant: the cursor never returns to the direct connection
NextIndexSkipsDirect(idx) == IF idx + 1 >= NumProxies THEN 1 ELSE idx + 1

\* self.current_index = (self.current_index + 1) % len(self.proxy_list)
NextIndex(idx) == (idx + 1) % NumProxies

\* get_next_proxy: the entry at the cursor, and the cursor moved on
GetNextProxy(idx) == [proxy |-> ProxyList[idx + 1], index |-> NextIndex(idx)]

CurrentProxy(idx) == (idx + NumProxies - 1) % NumProxies

\* success, dur = download_method(url, temp_file, proxy): the call recorded
Invoke(cs, m, idx) ==
    Append(cs, [method |-> DownloadMethods[m], proxy |-> CurrentProxy(idx),
                attempts |-> 1])

\* one more pass of the attempt loop of the call made last
Reattempt(cs) ==
    [cs EXCEPT ![Len(cs)].attempts = cs[Len(cs)].attempts + 1]

\* a faulty variant: the loop makes one pass more
MoreAttemptsOneMore(a) == a <= MaxRetries

\* for attempt in range(max_retries): whether a pass follows a passes
MoreAttempts(a) == a < MaxRetries

\* except Exception as e: last_error = e
RecordError(last, e) == Some(e)

\* random.uniform(0, 0.1) * delay: the least, a middle and the greatest jitter
Jitters(d) == {0, d \div 20, d \div 10}

\* a faulty variant of the backoff: the delay is not doubled
NextDelayConstant(d) == d

\* delay *= 2
NextDelay(d) == d * 2

\* the video durations the downloader may report
\* durations are counted in half seconds, so that one that is not a whole
\* number of seconds can be told from its integer part
Sec(s) == 2 * s

\* int(duration), in seconds
IntSeconds(d) == d \div 2

\* the video durations the downloader may report
SampleDurations ==
    {Sec(60), Sec(120), Sec(120) + 1, Sec(121), Sec(240), Sec(240) + 1,
     Sec(300), Sec(301), Sec(360)}
Durations == {d \in SampleDurations : d <= Sec(MaxDuration)}

\* what extract_info may hold under 'duration': nothing, or a duration
Infos ==
    {[isNone |-> TRUE, val |-> 0]}
    \cup {[isNone |-> FALSE, val |-> d] : d \in Durations}

\* info.get('duration', 600)
ReportedDuration(info) ==
    IF info.isNone THEN Sec(DefaultDuration) ELSE info.val

\* what one attempt of the downloader may do to the two files when it fails:
\* nothing, or leave what it had written under the output template
YtdlpFailFiles(f) == {f, [f EXCEPT !["raw"] = "data"]}

\* ... and when it succeeds: the converted file written (possibly empty) and
\* the intermediate one removed, or no file under the expected name
YtdlpOkFiles(f) ==
    {[f EXCEPT !["mp3"] = "data", !["raw"] = "absent"],
     [f EXCEPT !["mp3"] = "empty", !["raw"] = "absent"],
     f}

\* what the fallback may do to temp_file when it fails: nothing (the request
\* failed), or a partly written file
RequestsFailFiles(f) ==
    {f, [f EXCEPT !["mp3"] = "empty"], [f EXCEPT !["mp3"] = "data"]}

RequestsOkFiles(f) ==
    {[f EXCEPT !["mp3"] = "data"], [f EXCEPT !["mp3"] = "empty"]}

----------------------------------------------------------------------------
(* TranscriptionService.download_audio: the exception handler *)

\* a faulty variant: only temp_file is removed, temp_file[:-4] is left
DownloadCleanupTargetOnly(f, e, ok1, ok2) ==
    IF Exists(f["mp3"]) /\ ~ok1
    THEN [fs |-> f, exc |-> ErrRemove]
    ELSE [fs |-> [f EXCEPT !["mp3"] = "absent"],
          exc |-> Wrap("Error downloading audio: ", e)]

\* if exists(temp_file): remove; if exists(temp_file[:-4]): remove; raise
\* ValueError.  A removal that fails raises out of the handler.
DownloadCleanup(f, e, ok1, ok2) ==
    IF Exists(f["mp3"]) /\ ~ok1
    THEN [fs |-> f, exc |-> ErrRemove]
    ELSE IF Exists(f["raw"]) /\ ~ok2
    THEN [fs |-> [f EXCEPT !["mp3"] = "absent"], exc |-> ErrRemove]
    ELSE [fs |-> NoFiles, exc |-> Wrap("Error downloading audio: ", e)]

----------------------------------------------------------------------------
(* TranscriptionService.transcribe_audio *)

Min(a, b) == IF a <= b THEN a ELSE b

\* len(range(0, int(duration), chunk_size))
NumChunks(d) == (IntSeconds(d) + ChunkSize - 1) \div ChunkSize

\* the (start, end - start) pairs: start in seconds, the length in half
\* seconds
Chunks(d) ==
    [i \in 1..NumChunks(d) |->
        [start |-> (i - 1) * ChunkSize,
         dur |-> Min(Sec(i * ChunkSize), d) - Sec((i - 1) * ChunkSize)]]

\* min(len(chunks), multiprocessing.cpu_count())
NumWorkers(d) == Min(NumChunks(d), CpuCount)

\* what the model may return for the whole file
WhisperTexts == {<<"w">>, <<>>}

\* what the model returns for the segment starting at start
SegmentText(start) == <<"w", ToString(start)>>

\* a faulty variant: the name is built from the time alone
ChunkFileNoStart(start, stamp) == [start |-> 0, stamp |-> stamp]

\* os.path.join(temp_dir, f"chunk_{start_time}_{int(time.time())}.mp3")
ChunkFile(start, stamp) == [start |-> start, stamp |-> stamp]

\* a worker that has not built its chunk_file
NoPath == [start |-> -1, stamp |-> -1]

\* the clock, in whole seconds since the oldest reading that a path in use
\* still holds: the latest of these readings
Now(paths) ==
    LET held == {paths[k].stamp : k \in DOMAIN paths} \cup {0}
    IN  CHOOSE t \in held : \A u \in held : u <= t

\* int(time.time()) at a worker's start: the clock has not moved since the
\* last reading, or it has moved on by a second
Stamps(t) == {t, t + 1} \cap 0..MaxTicks

Running(c) == {i \in DOMAIN c : c[i] = "running"}

\* the outcomes of one _transcribe_chunk call: the split fails writing
\* nothing, the split fails leaving a partial file, the model fails on the
\* segment, the segment is transcribed
ChunkOutcomes == {"split_fail", "split_partial", "model_fail", "ok"}

\* _transcribe_chunk's return value
TranscribeChunk(start, o) ==
    IF o \in {"split_fail", "split_partial"}
    THEN <<"Error creating chunk at ", ToString(start)>>
    ELSE IF o = "model_fail"
    THEN Wrap("Error transcribing chunk: ", ErrModel)
    ELSE SegmentText(start)

\* the model.transcribe calls one _transcribe_chunk call makes: none when
\* the split fails
ModelCallsOf(o) == IF o \in {"split_fail", "split_partial"} THEN 0 ELSE 1

\* the segment's file when _transcribe_chunk returns: the early return after
\* a failed split is outside the try/finally that removes the file
ChunkFileAfter(o, rmok) ==
    IF o = "split_fail" THEN "absent"
    ELSE IF o = "split_partial" THEN "data"
    ELSE IF rmok THEN "absent" ELSE "data"

\* results = [future.result() for future in as_completed(futures)]: each
\* result is appended when its future completes
Collect(res, i, r) == Append(res, r)

\* a faulty variant: the success path leaves the file
SuccessCleanupSkipped(st, rmok) == st

\* try: os.remove(audio_path) except Exception: pass
SuccessCleanup(st, rmok) == IF Exists(st) /\ rmok THEN "absent" ELSE st

\* a faulty variant: the handlers leave the file
GuardedRemoveSkipped(st, rmok) == st

\* the handlers' "if os.path.exists(p): os.remove(p)" inside try/except
GuardedRemove(st, rmok) == IF Exists(st) /\ rmok THEN "absent" ELSE st


----------------------------------------------------------------------------
(* translator.TranslationService.translate_text *)

\* A text handed to translate_text is known by its length: lead whitespace
\* characters, then core characters from the first to the last one that is
\* not whitespace, then trail whitespace characters.
TextOf(l, c, t) == [lead |-> l, core |-> c, trail |-> t]

\* len(text)
TextLen(t) == t.lead + t.core + t.trail

\* a faulty variant: the text is returned as it was given
StripTextNot(t) == t

\* text.strip()
StripText(t) == TextOf(0, t.core, 0)

\* the lengths of the texts a caller may pass
SampleLengths == {0, 1, 4999, 5000, 9998, 9999, 12000, 12001}

\* text=None
NoText == [isNone |-> TRUE, val |-> TextOf(0, 0, 0)]

Texts ==
    {NoText, Some(TextOf(0, 0, 0)), Some(TextOf(1, 0, 0))}
    \cup {Some(TextOf(p, c, p)) :
            p \in {0, 1},
            c \in {n \in SampleLengths : n > 0 /\ n <= MaxTextLen}}

\* the keys of self.supported_languages the model tells apart, and a code
\* that is not a key
SupportedLanguages == {"en", "es"}
LangCodes == SupportedLanguages \cup {"xx"}

\* [text[i:i + MAX_CHUNK_LENGTH] for i in range(0, len(text),
\* MAX_CHUNK_LENGTH)]: each chunk by where it starts and how long it is
TextChunks(n) ==
    [k \in 1..((n + MaxChunkLength - 1) \div MaxChunkLength) |->
        [start |-> (k - 1) * MaxChunkLength,
         len |-> Min(k * MaxChunkLength, n) - (k - 1) * MaxChunkLength]]

\* what the backend returns for a chunk it translates
Translation(c) == <<"t", ToString(c.start)>>

ErrInvalid == <<"Invalid input: text must be a non-empty string">>
ErrWhitespace == <<"Invalid input: text contains only whitespace">>
ErrUnsupported == <<"Language code not supported">>
ErrNoResult == <<"Translation produced no result">>
ErrNetwork == <<"request failed">>
ErrBackend == <<"backend failed">>

\* the checks at the head of translate_text: the error raises, or none
Validate(t, lang) ==
    IF t.isNone \/ TextLen(t.val) = 0 THEN Some(ErrInvalid)
    ELSE IF StripText(t.val).core = 0 THEN Some(ErrWhitespace)
    ELSE IF lang \notin SupportedLanguages THEN Some(ErrUnsupported)
    ELSE None

\* what one translator.translate call may do: return a translation, return
\* nothing, raise requests.exceptions.RequestException, raise anything else
BackendOutcomes == {"ok", "empty", "net", "other"}

NoOutcomes == [o \in BackendOutcomes |-> 0]

\* the calls that did not return a translation
Faults(oc) == oc["empty"] + oc["net"] + oc["other"]

\* what the next backend call may do: the network may be down from the
\* first call on, every call raising RequestException for as long as it is;
\* apart from that at most MaxBackendFaults calls of one translate_text
\* call fail
BackendOutcomesLeft(oc) ==
    {"ok"}
    \cup (IF Faults(oc) < MaxBackendFaults THEN BackendOutcomes ELSE {})
    \cup (IF Faults(oc) = oc["net"] /\ oc["ok"] = 0 THEN {"net"} ELSE {})

\* the count of one more outcome
Count(oc, o) == [oc EXCEPT ![o] = @ + 1]

\* time.sleep(2 ** retry_count)
NetworkBackoff(rc) == 2 ^ rc

\* wait_exponential(multiplier=1, min=4, max=10) after attempt number a
RetryWait(a) ==
    LET w == WaitMultiplier * 2 ^ (a - 1)
    IN  IF w > WaitMax THEN WaitMax ELSE IF w < WaitMin THEN WaitMin ELSE w

\* @retry without a retry argument retries on every exception
Retries(e) == TRUE

\* the decorator has no reraise=True: after the last attempt the caller gets
\* a RetryError holding the last attempt
Exhausted(e) == Wrap("RetryError", e)

----------------------------------------------------------------------------
(* youtube_utils.py: the video metadata *)

\* the video id of the request's URL
VideoId == "vid"

\* a URL is one a pattern of extract_video_id matches, or one none matches
Urls == {"watch", "invalid"}

ErrInvalidUrl == <<"Invalid YouTube URL">>

\* extract_video_id: the id of the first pattern that matches, else ValueError
ExtractVideoId(url) ==
    IF url = "watch"
    THEN [kind |-> "ok", id |-> VideoId, err |-> <<>>]
    ELSE [kind |-> "raise", id |-> "", err |-> ErrInvalidUrl]

\* what the API offers: no YOUTUBE_API_KEY, build() raising, execute()
\* raising, a response without items, an item, an item without the "high"
\* thumbnail
ApiOutcomes ==
    {"no_key", "build_error", "execute_error", "no_items", "item",
     "item_no_thumbnail"}

\* what yt-dlp's extract_info offers: an info dict with every field, one with
\* none of them, or an exception
YdlOutcomes == {"info", "info_bare", "error"}

ErrBuild == <<"build error">>
ErrExtract == <<"extraction error">>
ErrKey == <<"KeyError">>

\* the item of the API response; its duration is ISO 8601, "PT1M5S", held as
\* the parts the regular expression finds
ApiItem ==
    [title |-> "api title", channelTitle |-> "api channel",
     duration |-> <<[value |-> 1, unit |-> "m"], [value |-> 5, unit |-> "s"]>>]
NoItem == [title |-> "", channelTitle |-> "", duration |-> <<>>]

\* get_youtube_api_client and the decorated get_video_info_from_api: without
\* a key None; an exception of build() is outside the try, so the decorator
\* retries it and raises RetryError after the third attempt; an exception of
\* the request, and an empty response, give None
GetVideoInfoFromApi(api) ==
    IF api = "build_error"
    THEN [kind |-> "raise", found |-> FALSE, item |-> NoItem,
          err |-> Exhausted(ErrBuild)]
    ELSE IF api \in {"item", "item_no_thumbnail"}
    THEN [kind |-> "ok", found |-> TRUE, item |-> ApiItem, err |-> <<>>]
    ELSE [kind |-> "ok", found |-> FALSE, item |-> NoItem, err |-> <<>>]

RECURSIVE IsoSeconds(_)
\* the loop over re.findall(r'(\d+[hms])', duration_str)
IsoSeconds(parts) ==
    IF parts = <<>>
    THEN 0
    ELSE LET p == Head(parts)
         IN (IF p.unit = "h" THEN p.value * 3600
             ELSE IF p.unit = "m" THEN p.value * 60
             ELSE p.value) + IsoSeconds(Tail(parts))

NoInfo == [title |-> "", author |-> "", length |-> 0, thumbnail_url |-> ""]
NoViEnv == [url |-> "none", api |-> "none", ydl |-> "none"]
NoViRes == [kind |-> "none", info |-> NoInfo, err |-> <<>>]
ViEnvs == [url : Urls, api : ApiOutcomes, ydl : YdlOutcomes]

\* the record built from the API item
ApiRecord(item) ==
    [title |-> item.title, author |-> item.channelTitle,
     length |-> IsoSeconds(item.duration), thumbnail_url |-> "api thumbnail"]

\* the record built from yt-dlp's info, with the defaults of info.get
YdlRecord(ydl) ==
    IF ydl = "info"
    THEN [title |-> "ydl title", author |-> "ydl uploader", length |-> 65,
          thumbnail_url |-> "ydl thumbnail"]
    ELSE [title |-> "Unknown Title", author |-> "Unknown Author",
          length |-> 0, thumbnail_url |-> ""]

\* except Exception as e: raise ValueError(f"Error fetching video info: ...")
FetchError(e) ==
    [kind |-> "error", info |-> NoInfo,
     err |-> Wrap("Error fetching video info", e)]

\* get_video_info: the API first, yt-dlp when the API gave nothing; every
\* exception on the way is raised again as a ValueError
GetVideoInfo(env) ==
    LET id == ExtractVideoId(env.url)
        api == GetVideoInfoFromApi(env.api)
    IN IF id.kind = "raise" THEN FetchError(id.err)
       ELSE IF api.kind = "raise" THEN FetchError(api.err)
       ELSE IF api.found
       THEN IF env.api = "item_no_thumbnail"
            THEN FetchError(ErrKey)
            ELSE [kind |-> "ok", info |-> ApiRecord(api.item), err |-> <<>>]
       ELSE IF env.ydl = "error" THEN FetchError(ErrExtract)
       ELSE [kind |-> "ok", info |-> YdlRecord(env.ydl), err |-> <<>>]

----------------------------------------------------------------------------
(* The state machine *)

NoPvRes == [kind |-> "none", val |-> <<>>]
\* what translate_text delivers: the stripped text, a translation, an error
NoTrRes ==
    [kind |-> "none", val |-> <<>>,
     text |-> [lead |-> 0, core |-> 0, trail |-> 0]]
Returns(v) == [NoTrRes EXCEPT !.kind = "ok", !.val = v]
ReturnsText(t) == [NoTrRes EXCEPT !.kind = "text", !.text = t]
Raises(e) == [NoTrRes EXCEPT !.kind = "error", !.val = e]
NoCapOut == [raised |-> FALSE, val |-> None]

\* a transcript an earlier request of the session may have stored
EarlierTranscript == <<"o", "l", "d", ".">>

InitCommon ==
    /\ pc = "idle"
    /\ session \in {None, Some(EarlierTranscript)}
    /\ sessionBefore = session
    /\ lookup = NoLookup
    /\ capOut = NoCapOut
    /\ pvCalls = 0
    /\ fs = NoFiles
    /\ proxyIdx = 0
    /\ rot = 0
    /\ mi = 0
    /\ att = 0
    /\ delay = 0
    /\ sleeps = <<>>
    /\ ret = NoRet
    /\ lastError = None
    /\ duration = 0
    /\ audioPath = FALSE
    /\ exc = None
    /\ cause = None
    /\ modelLoaded = FALSE
    /\ cst = <<>>
    /\ chunkFs = <<>>
    /\ chunkRes = <<>>
    /\ results = <<>>
    /\ text = <<>>
    /\ pvRes = NoPvRes
    /\ cleanups = 0
    /\ dlRemoved = {}
    /\ entry = "none"
    /\ calls = <<>>
    /\ taRes = NoPvRes
    /\ splitCalls = {}
    /\ modelCalls = 0
    /\ trText = NoText
    /\ trLang = "en"
    /\ attempt = 0
    /\ retryCount = 0
    /\ chunkIdx = 0
    /\ translatedChunks = <<>>
    /\ backendCalls = 0
    /\ waits = <<>>
    /\ outcomes = NoOutcomes
    /\ raised = <<>>
    /\ trRes = NoTrRes
    /\ viEnv = NoViEnv
    /\ viRes = NoViRes
    /\ proxyCalls = <<>>
    /\ chunkPath = <<>>

\* the file system honours every os.remove
Init == InitCommon /\ faultyFs = FALSE

\* os.remove may fail
InitFaulty == InitCommon /\ faultyFs \in BOOLEAN

dlVars ==
    <<fs, proxyIdx, rot, mi, att, delay, sleeps, ret, lastError, duration,
      audioPath>>
chunkVars == <<cst, chunkFs, chunkRes, results>>
mainVars == <<session, lookup, capOut, pvCalls>>
appVars ==
    <<faultyFs, sessionBefore, taRes, calls, splitCalls, modelCalls, session, lookup, capOut,
      pvCalls, fs, proxyIdx, rot, mi, att, delay, sleeps, ret, lastError,
      duration, audioPath, exc, cause, modelLoaded, cst, chunkFs, chunkRes,
      results, text, pvRes, cleanups, dlRemoved, viEnv, viRes, proxyCalls,
      chunkPath>>
newVars == <<viEnv, viRes, proxyCalls, chunkPath>>
countVars == <<calls, splitCalls, modelCalls>>
trVars ==
    <<trText, trLang, attempt, retryCount, chunkIdx, translatedChunks,
      backendCalls, waits, outcomes, raised, trRes>>

(* main.py: the "Generate Transcript" button *)

\* transcript = get_youtube_transcript(video_id)
GenerateTranscript ==
    /\ pc = "idle"
    /\ entry' = "main"
    /\ \E lk \in Lookups :
        /\ lookup' = lk
        /\ capOut' = GetYoutubeTranscript(lk)
    /\ pc' = "cap_ret"
    /\ UNCHANGED <<newVars, faultyFs, sessionBefore, taRes, trVars, countVars, session, pvCalls,
                   dlVars, exc, cause, modelLoaded, chunkVars, text, pvRes,
                   cleanups, dlRemoved>>

\* a faulty variant: the captions are never used
UseCaptionsNever(o) == FALSE

\* "if transcript:"
UseCaptions(o) == Truthy(o)

\* the branch on the lookup's result; an exception of the lookup would reach
\* the handler of main, which reports it
MainBranch ==
    /\ pc = "cap_ret"
    /\ IF capOut.raised
       THEN /\ pc' = "done"
            /\ pvRes' = [kind |-> "caption_error", val |-> <<>>]
            /\ UNCHANGED <<session, pvCalls>>
       ELSE IF UseCaptions(capOut.val)
       THEN /\ session' = capOut.val
            /\ pc' = "done"
            /\ UNCHANGED <<pvCalls, pvRes>>
       ELSE /\ pc' = "pv_call"
            /\ pvCalls' = pvCalls + 1
            /\ UNCHANGED <<session, pvRes>>
    /\ UNCHANGED <<newVars, faultyFs, sessionBefore, entry, taRes, trVars, countVars, lookup, capOut, dlVars, exc, cause, modelLoaded,
                   chunkVars, text, cleanups, dlRemoved>>

(* transcription.py: process_video and download_audio *)

\* process_video calls download_audio, which sets temp_file, last_error and
\* duration before its loops
ProcessVideoStart ==
    /\ pc = "pv_call"
    /\ pc' = "dl_rot"
    /\ rot' = 0
    /\ lastError' = None
    /\ duration' = Sec(DefaultDuration)
    /\ lookup' = NoLookup
    /\ capOut' = NoCapOut
    /\ calls' = <<>>
    /\ UNCHANGED <<newVars, faultyFs, sessionBefore, entry, taRes, trVars, splitCalls, modelCalls, session,
                   pvCalls, fs, proxyIdx, mi, att, delay, sleeps, ret,
                   audioPath, exc, cause, modelLoaded, chunkVars, text, pvRes,
                   cleanups, dlRemoved>>

\* for _ in range(3): proxy = get_next_proxy(); the first method is called,
\* which sets its delay and makes its first attempt next
NextProxy ==
    /\ pc = "dl_rot"
    /\ IF rot < ProxyRotations
       THEN /\ proxyIdx' = GetNextProxy(proxyIdx).index
            /\ proxyCalls' = Append(proxyCalls, GetNextProxy(proxyIdx).proxy)
            /\ rot' = rot + 1
            /\ mi' = 1
            /\ att' = 0
            /\ delay' = InitialDelay
            /\ sleeps' = <<>>
            /\ pc' = "ytdlp_try"
       ELSE /\ pc' = "dl_after"
            /\ UNCHANGED <<proxyIdx, proxyCalls, rot, mi, att, delay, sleeps>>
    /\ UNCHANGED <<viEnv, viRes, chunkPath, faultyFs, sessionBefore, entry, taRes, trVars, countVars, mainVars, fs, ret, lastError, duration, audioPath,
                   exc, cause, modelLoaded, chunkVars, text, pvRes,
                   cleanups, dlRemoved>>

\* one pass of _download_with_ytdlp's "for attempt in range(max_retries)"
\* and, when the call ends, download_audio's handling of what it delivered
YtdlpAttempt ==
    /\ pc = "ytdlp_try"
    /\ calls' = IF att = 0 THEN Invoke(calls, 1, proxyIdx) ELSE Reattempt(calls)
    /\ \/ \E info \in Infos, f \in YtdlpOkFiles(fs) :
            \* return True, duration
            /\ fs' = f
            /\ att' = att + 1
            /\ ret' = [kind |-> "ok", err |-> <<>>]
            /\ IF Exists(f["mp3"])
               THEN /\ pc' = "dl_ok"
                    /\ duration' = ReportedDuration(info)
                    /\ mi' = mi
               ELSE pc' = "req_try" /\ duration' = duration /\ mi' = 2
            /\ UNCHANGED <<delay, sleeps, lastError>>
       \/ \E e \in YtdlpErrors, f \in YtdlpFailFiles(fs) :
            \* an error other than HTTP 403: raise e
            /\ ~Is403(e)
            /\ fs' = f
            /\ att' = att + 1
            /\ ret' = [kind |-> "raise", err |-> e]
            /\ lastError' = RecordError(lastError, e)
            /\ mi' = 2
            /\ pc' = "req_try"
            /\ UNCHANGED <<delay, sleeps, duration>>
       \/ \E e \in YtdlpErrors, f \in YtdlpFailFiles(fs),
             j \in Jitters(delay) :
            \* HTTP 403: sleep, double the delay; after the last attempt
            \* raise last_exception
            /\ Is403(e)
            /\ fs' = f
            /\ att' = att + 1
            /\ sleeps' = Append(sleeps, delay + j)
            /\ delay' = NextDelay(delay)
            /\ IF MoreAttempts(att + 1)
               THEN /\ pc' = "ytdlp_try"
                    /\ UNCHANGED <<ret, lastError, mi>>
               ELSE /\ ret' = [kind |-> "raise", err |-> e]
                    /\ lastError' = RecordError(lastError, e)
                    /\ mi' = 2
                    /\ pc' = "req_try"
            /\ UNCHANGED duration
    /\ UNCHANGED <<newVars, faultyFs, sessionBefore, entry, taRes, trVars, splitCalls, modelCalls, mainVars,
                   proxyIdx, rot, audioPath, exc, cause, modelLoaded,
                   chunkVars, text, pvRes, cleanups, dlRemoved>>

\* _download_with_requests, and download_audio's handling of what it delivers
RequestsDownload ==
    /\ pc = "req_try"
    /\ calls' = Invoke(calls, 2, proxyIdx)
    /\ \/ \E f \in RequestsOkFiles(fs) :
            \* return True, 600
            /\ fs' = f
            /\ ret' = [kind |-> "ok", err |-> <<>>]
            /\ duration' = Sec(DefaultDuration)
            /\ pc' = "dl_ok"
            /\ UNCHANGED lastError
       \/ \E f \in RequestsFailFiles(fs) :
            /\ fs' = f
            /\ ret' = [kind |-> "raise", err |-> ErrRequests]
            /\ lastError' = RecordError(lastError, ErrRequests)
            /\ pc' = "dl_rot"
            /\ UNCHANGED duration
    /\ UNCHANGED <<newVars, faultyFs, sessionBefore, entry, taRes, trVars, splitCalls, modelCalls, mainVars,
                   proxyIdx, rot, mi, att, delay, sleeps, audioPath, exc,
                   cause, modelLoaded, chunkVars, text, pvRes, cleanups,
                   dlRemoved>>

\* after the loops: raise last_error, or FileNotFoundError, or return
DownloadAfterLoops ==
    /\ pc = "dl_after"
    /\ IF ~lastError.isNone
       THEN exc' = lastError /\ cause' = lastError /\ pc' = "dl_except"
       ELSE IF ~Exists(fs["mp3"])
       THEN /\ exc' = Some(ErrNotFound)
            /\ cause' = Some(ErrNotFound)
            /\ pc' = "dl_except"
       ELSE pc' = "dl_ok" /\ UNCHANGED <<exc, cause>>
    /\ UNCHANGED <<newVars, faultyFs, sessionBefore, entry, taRes, trVars, countVars, mainVars, dlVars, modelLoaded, chunkVars, text,
                   pvRes, cleanups, dlRemoved>>

\* download_audio's "except Exception as e"
DownloadExcept ==
    /\ pc = "dl_except"
    /\ \E ok1 \in RmOutcomes, ok2 \in RmOutcomes :
        LET c == DownloadCleanup(fs, exc.val, ok1, ok2)
        IN  /\ fs' = c.fs
            /\ exc' = Some(c.exc)
            /\ dlRemoved' = {n \in FileNames : Exists(fs[n]) /\ ~Exists(c.fs[n])}
    /\ pc' = "pv_except"
    /\ UNCHANGED <<newVars, faultyFs, sessionBefore, entry, taRes, trVars, countVars, mainVars, proxyIdx, rot, mi, att, delay, sleeps,
                   ret, lastError, duration, audioPath, cause, modelLoaded,
                   chunkVars, text, pvRes, cleanups>>


(* transcription.py: transcribe_audio *)

NoChunks == <<>>

\* a caller other than process_video calls transcribe_audio(audio_path,
\* duration) on a path that may hold no file, an empty one or audio
TranscribeAudioCall ==
    /\ pc = "idle"
    /\ entry' = "transcribe_audio"
    /\ \E st \in FileStates, d \in Durations :
        /\ fs' = [fs EXCEPT !["mp3"] = st]
        /\ duration' = d
    /\ pc' = "tr_call"
    /\ UNCHANGED <<newVars, faultyFs, sessionBefore, taRes, trVars, countVars, mainVars, proxyIdx,
                   rot, mi, att, delay, sleeps, ret, lastError, audioPath,
                   exc, cause, modelLoaded, chunkVars, text, pvRes, cleanups,
                   dlRemoved>>

\* download_audio has returned (its locals are gone) and process_video
\* calls transcribe_audio: the checks of the file, load_model, and the
\* choice of the path
TranscribeStart ==
    /\ pc \in {"dl_ok", "tr_call"}
    /\ audioPath' = (pc = "dl_ok")
    /\ rot' = 0 /\ mi' = 0 /\ att' = 0 /\ delay' = 0 /\ sleeps' = <<>>
    /\ ret' = NoRet /\ lastError' = None /\ calls' = <<>>
    /\ splitCalls' = {} /\ modelCalls' = 0
    /\ IF ~Exists(fs["mp3"])
       THEN /\ exc' = Some(ErrMissing) /\ cause' = Some(ErrMissing)
            /\ pc' = "tr_except"
            /\ UNCHANGED <<modelLoaded, chunkVars, chunkPath>>
       ELSE IF fs["mp3"] = "empty"
       THEN /\ exc' = Some(ErrEmpty) /\ cause' = Some(ErrEmpty)
            /\ pc' = "tr_except"
            /\ UNCHANGED <<modelLoaded, chunkVars, chunkPath>>
       ELSE \E loadOk \in (IF modelLoaded THEN {TRUE} ELSE BOOLEAN) :
            IF ~loadOk
            THEN /\ exc' = Some(ErrLoad) /\ cause' = Some(ErrLoad)
                 /\ pc' = "tr_except"
                 /\ UNCHANGED <<modelLoaded, chunkVars, chunkPath>>
            ELSE /\ modelLoaded' = TRUE
                 /\ UNCHANGED <<exc, cause>>
                 /\ IF duration <= Sec(ChunkSize)
                    THEN pc' = "tr_single" /\ UNCHANGED <<chunkVars, chunkPath>>
                    ELSE /\ pc' = "tr_pool"
                         /\ cst' = [i \in 1..NumChunks(duration) |-> "queued"]
                         /\ chunkFs' = [i \in 1..NumChunks(duration) |-> "absent"]
                         /\ chunkRes' = [i \in 1..NumChunks(duration) |-> <<>>]
                         /\ results' = <<>>
                         /\ chunkPath' = [i \in 1..NumChunks(duration) |-> NoPath]
    /\ UNCHANGED <<viEnv, viRes, proxyCalls, faultyFs, sessionBefore, entry, taRes, trVars, mainVars, fs, proxyIdx,
                   duration, text, pvRes, cleanups, dlRemoved>>

\* result = model.transcribe(audio_path); text = result["text"]
TranscribeSingle ==
    /\ pc = "tr_single"
    /\ modelCalls' = modelCalls + 1
    /\ \/ \E t \in WhisperTexts :
            text' = t /\ pc' = "tr_cleanup" /\ UNCHANGED <<exc, cause>>
       \/ /\ exc' = Some(ErrModel) /\ cause' = Some(ErrModel)
          /\ pc' = "tr_except"
          /\ UNCHANGED text
    /\ UNCHANGED <<newVars, faultyFs, sessionBefore, entry, taRes, trVars, calls, splitCalls, mainVars,
                   dlVars, modelLoaded, chunkVars, pvRes, cleanups, dlRemoved>>

Done(c) == {i \in DOMAIN c : c[i] = "done"}

\* the segments that have failed so far
Failed(c, r) ==
    {i \in Done(c) : r[i] # SegmentText(Chunks(duration)[i].start)}

\* the outcomes the environment may still produce: at most MaxFaults
\* segments of one call fail
OutcomesLeft ==
    IF Cardinality(Failed(cst, chunkRes)) < MaxFaults
    THEN ChunkOutcomes
    ELSE {"ok"}

\* a worker takes up segment i and builds its chunk_file.  The pool hands
\* the segments out in submission order to NumWorkers workers.
StartChunk(i) ==
    /\ pc = "tr_pool"
    /\ cst[i] = "queued"
    /\ \A j \in 1..(i - 1) : cst[j] # "queued"
    /\ Cardinality(Running(cst)) < NumWorkers(duration)
    /\ \E t \in Stamps(Now(chunkPath)) :
        chunkPath' =
            [chunkPath EXCEPT ![i] = ChunkFile(Chunks(duration)[i].start, t)]
    /\ cst' = [cst EXCEPT ![i] = "running"]
    /\ UNCHANGED <<viEnv, viRes, proxyCalls, pc, faultyFs, sessionBefore,
                   entry, taRes, trVars, countVars, mainVars, dlVars, exc,
                   cause, modelLoaded, chunkFs, chunkRes, results, text,
                   pvRes, cleanups, dlRemoved>>

\* the worker of segment i runs the rest of _transcribe_chunk, from the
\* split to the return, and its future completes; the path stays in use
\* while a file is left under it
RunChunk(i) ==
    /\ pc = "tr_pool"
    /\ cst[i] = "running"
    /\ \E o \in OutcomesLeft, rmok \in RmOutcomes :
        /\ chunkFs' = [chunkFs EXCEPT ![i] = ChunkFileAfter(o, rmok)]
        /\ chunkPath' =
             [chunkPath EXCEPT ![i] = IF Exists(ChunkFileAfter(o, rmok))
                                      THEN chunkPath[i]
                                      ELSE NoPath]
        /\ chunkRes' =
             [chunkRes EXCEPT ![i] = TranscribeChunk(Chunks(duration)[i].start, o)]
        /\ results' =
             Collect(results, i, TranscribeChunk(Chunks(duration)[i].start, o))
        /\ modelCalls' = modelCalls + ModelCallsOf(o)
    /\ splitCalls' = splitCalls \cup {Chunks(duration)[i]}
    /\ cst' = [cst EXCEPT ![i] = "done"]
    /\ UNCHANGED <<viEnv, viRes, proxyCalls, pc, faultyFs, sessionBefore, entry, taRes, trVars, calls, mainVars, dlVars,
                   exc, cause, modelLoaded, text, pvRes, cleanups, dlRemoved>>

\* a worker process dies: future.result() raises out of the with block
PoolBroken ==
    /\ pc = "tr_pool"
    /\ Done(cst) # DOMAIN cst
    /\ exc' = Some(ErrPool) /\ cause' = Some(ErrPool)
    /\ pc' = "tr_except"
    /\ cst' = NoChunks /\ chunkRes' = NoChunks /\ results' = <<>>
    /\ chunkPath' = NoChunks
    /\ UNCHANGED <<viEnv, viRes, proxyCalls, faultyFs, sessionBefore, entry, taRes, trVars, countVars, mainVars, dlVars, modelLoaded, chunkFs, text, pvRes,
                   cleanups, dlRemoved>>

\* text = ' '.join(results), once every future has completed
PoolJoin ==
    /\ pc = "tr_pool"
    /\ Done(cst) = DOMAIN cst
    /\ text' = Join(results)
    /\ pc' = "tr_cleanup"
    /\ chunkPath' = NoChunks
    /\ UNCHANGED <<viEnv, viRes, proxyCalls, faultyFs, sessionBefore, entry, taRes, trVars, countVars, mainVars, dlVars, exc, cause, modelLoaded,
                   chunkVars, pvRes, cleanups, dlRemoved>>

\* the removal of the file and the memory cleanup after the text is there;
\* process_video returns what transcribe_audio returns
TranscribeCleanup ==
    /\ pc = "tr_cleanup"
    /\ \E rmok \in RmOutcomes, memOk \in BOOLEAN :
        /\ fs' = [fs EXCEPT !["mp3"] = SuccessCleanup(fs["mp3"], rmok)]
        /\ IF ~memOk
           THEN /\ exc' = Some(ErrMemory) /\ cause' = Some(ErrMemory)
                /\ pc' = "tr_except"
                /\ UNCHANGED <<pvRes, taRes>>
           ELSE IF audioPath
           THEN /\ pvRes' = [kind |-> "ok", val |-> text]
                /\ pc' = "pv_ret"
                /\ UNCHANGED <<exc, cause, taRes>>
           ELSE /\ taRes' = [kind |-> "ok", val |-> text]
                /\ pc' = "tr_ret"
                /\ UNCHANGED <<exc, cause, pvRes>>
    /\ cleanups' = cleanups + 1
    /\ dlRemoved' = dlRemoved
    /\ cst' = NoChunks /\ chunkRes' = NoChunks /\ results' = <<>>
    /\ UNCHANGED <<newVars, faultyFs, sessionBefore, entry, trVars, countVars, mainVars, proxyIdx, rot,
                   mi, att, delay, sleeps, ret, lastError, duration, audioPath,
                   modelLoaded, chunkFs, text>>

\* transcribe_audio's "except Exception as e"
TranscribeExcept ==
    /\ pc = "tr_except"
    /\ \E rmok \in RmOutcomes :
        fs' = [fs EXCEPT !["mp3"] = GuardedRemove(fs["mp3"], rmok)]
    /\ cleanups' = cleanups + 1
    /\ dlRemoved' = dlRemoved
    /\ IF audioPath
       THEN /\ exc' = Some(Wrap("Error transcribing audio: ", exc.val))
            /\ pc' = "pv_except"
            /\ UNCHANGED taRes
       ELSE /\ taRes' = [kind |-> "error",
                         val |-> Wrap("Error transcribing audio: ", exc.val)]
            /\ exc' = None
            /\ pc' = "tr_ret"
    /\ UNCHANGED <<newVars, faultyFs, sessionBefore, entry, trVars, countVars, mainVars, proxyIdx, rot,
                   mi, att, delay, sleeps, ret, lastError, duration, audioPath,
                   cause, modelLoaded, chunkVars, text, pvRes>>

\* process_video's "except Exception as e": audio_path is set only when
\* download_audio returned
ProcessVideoExcept ==
    /\ pc = "pv_except"
    /\ IF audioPath
       THEN /\ \E rmok \in RmOutcomes :
                fs' = [fs EXCEPT !["mp3"] = GuardedRemove(fs["mp3"], rmok)]
            /\ cleanups' = cleanups + 1
       ELSE UNCHANGED <<fs, cleanups>>
    /\ dlRemoved' = dlRemoved
    /\ pvRes' = [kind |-> "error",
                 val |-> Wrap("Error processing video: ", exc.val)]
    /\ exc' = None
    /\ pc' = "pv_ret"
    /\ UNCHANGED <<newVars, faultyFs, sessionBefore, entry, taRes, trVars, countVars, mainVars, proxyIdx, rot, mi, att, delay, sleeps,
                   ret, lastError, duration, audioPath, cause, modelLoaded,
                   chunkVars, text>>

(* main.py: after process_video *)

\* "if transcript and transcript.strip()": the transcript is stored;
\* otherwise, and on an exception, an error is shown and main returns
MainAfterProcess ==
    /\ pc = "pv_ret"
    /\ IF pvRes.kind = "ok" /\ pvRes.val # <<>> /\ Strip(pvRes.val) # <<>>
       THEN session' = Some(pvRes.val)
       ELSE UNCHANGED session
    /\ pc' = "done"
    /\ UNCHANGED <<newVars, faultyFs, sessionBefore, entry, taRes, trVars, countVars, lookup, capOut, pvCalls, dlVars, exc, cause,
                   modelLoaded, chunkVars, text, pvRes, cleanups, dlRemoved>>

(* translator.py: translate_text under its retry decorator *)

\* a caller calls translate_text(text, target_lang)
TranslateTextCall ==
    /\ pc = "idle"
    /\ entry' = "translate_text"
    /\ \E t \in Texts, l \in LangCodes : trText' = t /\ trLang' = l
    /\ pc' = "tl_attempt"
    /\ UNCHANGED <<attempt, retryCount, chunkIdx, translatedChunks,
                   backendCalls, waits, outcomes, raised, trRes, appVars>>

\* the decorator runs the function: the checks, the return of the stripped
\* text for 'en', or the set-up of the chunk loop
TranslateAttempt ==
    /\ pc = "tl_attempt"
    /\ attempt' = attempt + 1
    /\ IF ~Validate(trText, trLang).isNone
       THEN /\ raised' = Append(raised, Validate(trText, trLang).val)
            /\ pc' = "tl_raised"
            /\ UNCHANGED <<retryCount, chunkIdx, translatedChunks, trRes>>
       ELSE IF trLang = "en"
       THEN /\ trRes' = ReturnsText(StripText(trText.val))
            /\ pc' = "tl_ret"
            /\ UNCHANGED <<retryCount, chunkIdx, translatedChunks, raised>>
       ELSE /\ translatedChunks' = <<>>
            /\ retryCount' = 0
            /\ chunkIdx' = 1
            /\ pc' = "tl_chunk"
            /\ UNCHANGED <<raised, trRes>>
    /\ UNCHANGED <<entry, trText, trLang, backendCalls, waits, outcomes,
                   appVars>>

\* one translator.translate(text=chunk) call inside "while retry_count <
\* max_retries: try: for chunk in chunks", and what follows from it (the
\* half-second pause between chunks is not recorded)
TranslateChunk ==
    /\ pc = "tl_chunk"
    /\ backendCalls' = backendCalls + 1
    /\ LET cs == TextChunks(TextLen(StripText(trText.val)))
       IN  \/ \* a translation: appended; after the last chunk, break and
              \* return ' '.join(translated_chunks)
              /\ outcomes' = Count(outcomes, "ok")
              /\ translatedChunks' =
                   Append(translatedChunks, Translation(cs[chunkIdx]))
              /\ IF chunkIdx = Len(cs)
                 THEN /\ trRes' = Returns(Join(translatedChunks'))
                      /\ pc' = "tl_ret"
                      /\ UNCHANGED chunkIdx
                 ELSE /\ chunkIdx' = chunkIdx + 1
                      /\ UNCHANGED <<pc, trRes>>
              /\ UNCHANGED <<retryCount, waits, raised>>
           \/ \* nothing returned: ValueError, caught by "except Exception"
              /\ "empty" \in BackendOutcomesLeft(outcomes)
              /\ outcomes' = Count(outcomes, "empty")
              /\ raised' = Append(raised, Wrap("Translation error: ", ErrNoResult))
              /\ pc' = "tl_raised"
              /\ UNCHANGED <<retryCount, chunkIdx, translatedChunks, waits,
                             trRes>>
           \/ \* an exception that is not a RequestException
              /\ "other" \in BackendOutcomesLeft(outcomes)
              /\ outcomes' = Count(outcomes, "other")
              /\ raised' = Append(raised, Wrap("Translation error: ", ErrBackend))
              /\ pc' = "tl_raised"
              /\ UNCHANGED <<retryCount, chunkIdx, translatedChunks, waits,
                             trRes>>
           \/ \* RequestException: count it, give up at max_retries, or
              \* sleep and run the for loop again from the first chunk
              /\ "net" \in BackendOutcomesLeft(outcomes)
              /\ outcomes' = Count(outcomes, "net")
              /\ retryCount' = retryCount + 1
              /\ IF retryCount + 1 >= NetworkRetries
                 THEN /\ raised' =
                           Append(raised,
                                  Wrap("Network error after 3 retries: ",
                                       ErrNetwork))
                      /\ pc' = "tl_raised"
                      /\ UNCHANGED <<chunkIdx, waits>>
                 ELSE /\ waits' = Append(waits, NetworkBackoff(retryCount + 1))
                      /\ chunkIdx' = 1
                      /\ UNCHANGED <<pc, raised>>
              /\ UNCHANGED <<translatedChunks, trRes>>
    /\ UNCHANGED <<entry, trText, trLang, attempt, appVars>>

\* the decorator after an attempt that raised: wait and run the function
\* again, or stop after the third attempt
TranslateRetry ==
    /\ pc = "tl_raised"
    /\ IF Retries(raised[Len(raised)]) /\ attempt < MaxAttempts
       THEN /\ waits' = Append(waits, RetryWait(attempt))
            /\ pc' = "tl_attempt"
            /\ UNCHANGED trRes
       ELSE /\ trRes' =
                 Raises(IF Retries(raised[Len(raised)])
                        THEN Exhausted(raised[Len(raised)])
                        ELSE raised[Len(raised)])
            /\ pc' = "tl_ret"
            /\ UNCHANGED waits
    /\ UNCHANGED <<entry, trText, trLang, attempt, retryCount, chunkIdx,
                   translatedChunks, backendCalls, outcomes, raised, appVars>>

(* youtube_utils.py: get_video_info *)

\* a caller asks for the metadata of a URL
GetVideoInfoCall ==
    /\ pc = "idle"
    /\ entry' = "get_video_info"
    /\ \E env \in ViEnvs :
        /\ viEnv' = env
        /\ viRes' = GetVideoInfo(env)
    /\ pc' = "vi_ret"
    /\ UNCHANGED <<proxyCalls, chunkPath, faultyFs, sessionBefore, taRes,
                   trVars, countVars, mainVars, dlVars, exc, cause,
                   modelLoaded, chunkVars, text, pvRes, cleanups, dlRemoved>>

(* transcription.py: ProxyManager *)

\* a caller of the proxy manager asks for the next proxy
GetNextProxyCall ==
    /\ pc \in {"idle", "px_ret"}
    /\ Len(proxyCalls) < MaxProxyCalls
    /\ entry' = "get_next_proxy"
    /\ proxyIdx' = GetNextProxy(proxyIdx).index
    /\ proxyCalls' = Append(proxyCalls, GetNextProxy(proxyIdx).proxy)
    /\ pc' = "px_ret"
    /\ UNCHANGED <<viEnv, viRes, chunkPath, faultyFs, sessionBefore,
                   taRes, trVars, countVars, mainVars, fs, rot, mi, att,
                   delay, sleeps, ret, lastError, duration, audioPath, exc,
                   cause, modelLoaded, chunkVars, text, pvRes, cleanups,
                   dlRemoved>>

Next ==
    \/ GenerateTranscript
    \/ MainBranch
    \/ ProcessVideoStart
    \/ NextProxy
    \/ YtdlpAttempt
    \/ RequestsDownload
    \/ DownloadAfterLoops
    \/ DownloadExcept
    \/ TranscribeAudioCall
    \/ TranscribeStart
    \/ TranscribeSingle
    \/ \E i \in DOMAIN cst : StartChunk(i)
    \/ \E i \in DOMAIN cst : RunChunk(i)
    \/ PoolBroken
    \/ PoolJoin
    \/ TranscribeCleanup
    \/ TranscribeExcept
    \/ ProcessVideoExcept
    \/ MainAfterProcess
    \/ TranslateTextCall
    \/ TranslateAttempt
    \/ TranslateChunk
    \/ TranslateRetry
    \/ GetVideoInfoCall
    \/ GetNextProxyCall

Spec == Init /\ [][Next]_vars

SpecFaulty == InitFaulty /\ [][Next]_vars

\* every call to the outside returns or raises in finite time and the
\* request thread and the pool's workers keep running: a step that can be
\* taken is taken
SpecLive == Init /\ [][Next]_vars /\ WF_vars(Next)


----------------------------------------------------------------------------
(* Properties *)

\* the chunked path has joined its results
Joined == pc = "tr_cleanup" /\ cst # NoChunks

\* C1: in the chunked path the returned text is the space-join of the
\* segment results in ascending start-time order, whatever the order in
\* which the futures complete.
C1_JoinInStartOrder == Joined => text = Join(chunkRes)

\* the first non-empty class of the documented preference order: manual
\* English, generated English, any manual, any generated
PreferredTracks(tracks) ==
    IF FindManuallyCreated(tracks, {"en"}) # {}
    THEN FindManuallyCreated(tracks, {"en"})
    ELSE IF FindGenerated(tracks, {"en"}) # {}
    THEN FindGenerated(tracks, {"en"})
    ELSE IF FindManuallyCreated(tracks, Langs) # {}
    THEN FindManuallyCreated(tracks, Langs)
    ELSE FindGenerated(tracks, Langs)

\* C2: the track is chosen by the preference order manual English, generated
\* English, any manual, any generated, and text (not None) is returned
\* whenever a track exists and its fetch succeeds.
C2_PreferenceOrder ==
    (pc = "cap_ret" /\ lookup.listOk /\ lookup.tracks # {} /\ lookup.fetchOk)
        => /\ SelectTrack(lookup.tracks) # {}
           /\ SelectTrack(lookup.tracks) \subseteq PreferredTracks(lookup.tracks)
           /\ ~capOut.val.isNone

\* the lookup selected a track and fetched it
FoundTrack == lookup.listOk /\ lookup.found /\ lookup.fetchOk

\* C3 as stated: whenever the lookup finds a track its normalized text is
\* the result and process_video is not invoked; process_video runs only
\* when the lookup found no track or raised.
C3_TrackFoundNeverTranscribes ==
    /\ pc = "pv_call" => ~FoundTrack
    /\ (pc = "done" /\ FoundTrack)
          => pvCalls = 0 /\ session = Some(TranscriptText(lookup.entries))

\* C3 as amended: whenever the lookup returns non-empty text, that text is
\* the result and process_video is not invoked in the request;
\* process_video runs only when the lookup returned no text (None, or the
\* empty string of a track that normalizes to nothing).
C3_CaptionTextNeverTranscribes ==
    /\ pc = "pv_call" => pvCalls = 1 /\ ~Truthy(capOut.val)
    /\ (pc = "done" /\ Truthy(capOut.val))
          => /\ pvCalls = 0
             /\ FoundTrack
             /\ capOut.val = Some(TranscriptText(lookup.entries))
             /\ session = capOut.val

C3_Witness ==
    /\ pc = "done"
    /\ pvCalls = 0
    /\ FoundTrack
    /\ Len(lookup.entries) = 2
    /\ session = Some(TranscriptText(lookup.entries))

\* the three failures of the caption collaborator
LookupFails(lk) ==
    \/ ~lk.listOk
    \/ SelectTrack(lk.tracks) = {}
    \/ ~lk.fetchOk

\* C4: get_youtube_transcript never raises; when the listing fails, no track
\* matches or the fetch fails it returns None, and main then goes on to
\* process_video instead of reporting an error.
C4_LookupNeverRaises ==
    /\ ~capOut.raised
    /\ pvRes.kind # "caption_error"
    /\ (pc = "cap_ret" /\ LookupFails(lookup)) => capOut.val = None
    /\ (pc = "done" /\ pvCalls = 0) => ~LookupFails(lookup)
    /\ (pc = "pv_call" /\ LookupFails(lookup)) => pvCalls = 1

C4_Witness ==
    /\ pc = "pv_call"
    /\ pvCalls = 1
    /\ lookup.found
    /\ ~lookup.fetchOk
    /\ capOut.val = None

\* the error process_video delivers when nothing but the first error raised
\* decides it
WrappedCause ==
    Wrap("Error processing video: ",
         Wrap(IF audioPath THEN "Error transcribing audio: "
                           ELSE "Error downloading audio: ",
              cause.val))

\* process_video has returned to main
Returned == pc \in {"pv_ret", "done"} /\ pvRes.kind \in {"ok", "error"}

\* C5: after process_video returns, with a transcript or with an error of
\* any stage, the downloaded audio file does not exist, and a cleanup pass
\* that finds it already deleted neither raises nor changes the outcome.
C5_ParentDeleted ==
    Returned
        => /\ fs["mp3"] = "absent"
           /\ pvRes.kind = "error" => pvRes.val = WrappedCause
           /\ pvRes.kind = "ok" => pvRes.val = text /\ cause = None

C5_Witness ==
    /\ pc = "pv_ret"
    /\ pvRes.kind = "error"
    /\ cause = Some(ErrMemory)
    /\ cleanups = 3
    /\ fs["mp3"] = "absent"

\* download_audio has raised
DownloadFailed == pc = "pv_except" /\ ~audioPath

\* C6: whenever download_audio raises, none of the files its attempts wrote
\* is left: neither the target file nor the intermediate one.
C6_NoFileAfterFailedDownload ==
    DownloadFailed => \A n \in FileNames : fs[n] = "absent"

C6_Witness ==
    /\ DownloadFailed
    /\ dlRemoved = FileNames
    /\ fs = NoFiles

\* C7: on every terminal error path a failure of the file removal is
\* swallowed: the error delivered is the wrapped original cause.
C7_CleanupFailureSwallowed ==
    (Returned /\ pvRes.kind = "error") => pvRes.val = WrappedCause

\* C8: after _transcribe_chunk returns, the segment's temporary file does
\* not exist, whatever the outcome of the split and of the transcription.
C8_SegmentFileGone ==
    \A i \in DOMAIN cst : cst[i] = "done" => chunkFs[i] = "absent"

\* the placeholders of the segment starting at start
Placeholders(start) ==
    {<<"Error creating chunk at ", ToString(start)>>,
     Wrap("Error transcribing chunk: ", ErrModel)}

\* C9: in the chunked path a segment whose split or transcription fails
\* puts an error placeholder in that segment's slot, and the call returns
\* text with exactly one entry per segment.
C9_PlaceholderInSlot ==
    Joined
        => /\ Len(results) = NumChunks(duration)
           /\ \A i \in Failed(cst, chunkRes) :
                results[i] \in Placeholders(Chunks(duration)[i].start)

\* the primary strategy has ended on HTTP 403 and the fallback is next
Exhausted403 == pc = "req_try" /\ ret.kind = "raise" /\ Is403(ret.err)

\* C10: when every attempt of the primary strategy raises HTTP 403, the
\* strategy makes exactly 3 attempts, the k-th sleep is the base delay
\* 1 s * 2^(k-1) plus at most 10% of it, so the sleeps increase strictly,
\* and only then is the next strategy tried.
C10_RetryCeiling ==
    Exhausted403
        => /\ att = MaxRetries
           /\ mi = 2
           /\ Len(sleeps) = MaxRetries
           /\ \A k \in 1..Len(sleeps) :
                /\ sleeps[k] >= InitialDelay * 2^(k - 1)
                /\ 10 * sleeps[k] <= 11 * InitialDelay * 2^(k - 1)
           /\ \A k \in 1..(Len(sleeps) - 1) : sleeps[k] < sleeps[k + 1]

C10_Witness ==
    /\ Exhausted403
    /\ att = 3
    /\ sleeps = <<1100, 2000, 4200>>

\* C11: when every call of a download method fails, download_audio has
\* called the methods in the order primary, fallback for each of exactly 3
\* successive proxies, 6 calls in all, and raises a download error whose
\* message carries the error the last failed call raised.
C11_AllStrategiesFail ==
    DownloadFailed
        => /\ Len(calls) = ProxyRotations * Len(DownloadMethods)
           /\ \A k \in 1..Len(calls) :
                /\ calls[k].method = DownloadMethods[((k - 1) % 2) + 1]
                /\ calls[k].proxy
                     = (calls[1].proxy + ((k - 1) \div 2)) % NumProxies
           /\ ret.kind = "raise"
           /\ exc = Some(Wrap("Error downloading audio: ", ret.err))

\* download_audio returns to process_video
DownloadReturned == pc = "dl_ok"

\* what C12 says of a return besides the state of the file: the call that
\* succeeded is the last one made, and the duration is the one it reported,
\* 600 s when it reported none
ReturnsAtFirstSuccess ==
    /\ ret.kind = "ok"
    /\ Len(calls) = Len(DownloadMethods) * (rot - 1) + mi
    /\ calls[Len(calls)].method = DownloadMethods[mi]
    /\ calls[Len(calls)].proxy = CurrentProxy(proxyIdx)
    /\ duration \in Durations \cup {Sec(DefaultDuration)}
    /\ mi = 2 => duration = Sec(DefaultDuration)

\* C12: download_audio returns only if the file exists and is not empty at
\* the moment of the return; it returns at the first successful call of a
\* download method, trying no further method or proxy, with the duration
\* the method reported, or 600 s when it reported none.
C12_ReturnsArtifact ==
    DownloadReturned => fs["mp3"] = "data" /\ ReturnsAtFirstSuccess

\* transcribe_audio has its text: every split call of the call has been made
Transcribed == pc = "tr_cleanup"

\* ceil(a / b)
CeilDiv(a, b) == (a + b - 1) \div b

\* the windows are consecutive from 0 in steps of 120 s, each between 1 s
\* and 120 s long, only the last one shorter, and they end at d
WindowsCover(ws, d) ==
    \A k \in 0..(Cardinality(ws) - 1) :
        \E w \in ws :
            /\ w.start = k * ChunkSize
            /\ w.dur \in Sec(1)..Sec(ChunkSize)
            /\ k < Cardinality(ws) - 1 => w.dur = Sec(ChunkSize)
            /\ k = Cardinality(ws) - 1 => Sec(w.start) + w.dur = d

\* C13: for every duration d, transcribe_audio makes no split call when
\* d <= 120 (one pass over the whole file) and ceil(d / 120) split calls
\* when d > 120, on windows consecutive from 0 in steps of 120, each
\* between 1 and 120 long, which together cover [0, d) exactly.
C13_SegmentCount ==
    Transcribed
        => IF duration <= Sec(ChunkSize)
           THEN splitCalls = {} /\ modelCalls = 1
           ELSE /\ Cardinality(splitCalls) = CeilDiv(duration, Sec(ChunkSize))
                /\ WindowsCover(splitCalls, duration)

\* translate_text has returned or raised to its caller
Delivered == pc = "tl_ret"

\* the text passes the checks at the head of translate_text
ValidText == ~trText.isNone /\ trText.val.core > 0

\* every backend call so far raised a network error, and there was one
NetworkDown == backendCalls > 0 /\ outcomes["net"] = backendCalls

\* C14: when the backend raises a network error on every call, one
\* translate_text call makes at most 3 attempts of the whole operation,
\* each of which ends at its first backend call, so at most 3 backend
\* calls, the waits between them increasing, and then fails.
C14_NetworkRetryCeiling ==
    NetworkDown
        => /\ attempt <= MaxAttempts
           /\ backendCalls <= MaxAttempts
           /\ \A k \in 1..(Len(waits) - 1) : waits[k] < waits[k + 1]
           /\ Delivered => trRes.kind = "error"

\* the error an attempt raises when it is not the network error
NotNetwork(e) == e[1] # "Network error after 3 retries: "

\* C15: an error of translate_text that is not a network error (a failed
\* check, a chunk translated to nothing, any other backend exception)
\* reaches the caller at once: the operation is not run again, no backend
\* call follows it, and the caller receives that error.
C15_OtherErrorsPropagate ==
    \A k \in 1..Len(raised) :
        NotNetwork(raised[k])
            => /\ attempt = k
               /\ pc \in {"tl_raised", "tl_ret"}
               /\ Delivered => trRes = Raises(raised[k])

\* C16: translate_text of a text that passes the checks, with a target
\* language that is not a key of the supported languages, fails with the
\* unsupported-language error, which is the error the caller receives, and
\* makes no backend call.
C16_UnsupportedLanguage ==
    (Delivered /\ ValidText /\ trLang \notin SupportedLanguages)
        => /\ trRes = Raises(ErrUnsupported)
           /\ backendCalls = 0

\* C17: for every text that is not empty after trimming,
\* translate_text(text, 'en') returns the trimmed text unchanged and makes
\* no backend call.
C17_EnglishIdentity ==
    (Delivered /\ ValidText /\ trLang = "en")
        => /\ trRes = ReturnsText(TextOf(0, trText.val.core, 0))
           /\ backendCalls = 0
           /\ attempt = 1

C17_Witness ==
    /\ Delivered
    /\ trLang = "en"
    /\ trText = Some(TextOf(1, 5000, 1))
    /\ trRes = ReturnsText(TextOf(0, 5000, 0))
    /\ backendCalls = 0

\* ceil(n / 4999) consecutive chunks of at most 4999 characters
ChunkedBy4999(cs, n) ==
    /\ Len(cs) = CeilDiv(n, MaxChunkLength)
    /\ \A k \in 1..Len(cs) :
        /\ cs[k].len \in 1..MaxChunkLength
        /\ cs[k].start = IF k = 1 THEN 0 ELSE cs[k - 1].start + cs[k - 1].len
        /\ k = Len(cs) => cs[k].start + cs[k].len = n

\* C18: whenever translate_text returns for a target other than 'en', the
\* trimmed text of length n was split into ceil(n / 4999) consecutive
\* chunks of at most 4999 characters and the result is the single-space
\* join of exactly one translation per chunk, in chunk order, also when
\* attempts failed with a network error before one succeeded.
C18_ChunkedJoin ==
    (Delivered /\ trRes.kind = "ok" /\ trLang # "en")
        => LET cs == TextChunks(trText.val.core)
           IN  /\ ChunkedBy4999(cs, trText.val.core)
               /\ trRes.val = Join([k \in 1..Len(cs) |-> Translation(cs[k])])

\* transcribe_audio found no file, or an empty one, at audio_path
FailedOnArtifact == cause \in {Some(ErrMissing), Some(ErrEmpty)}

\* the error transcribe_audio raises on such a file
ArtifactError == Wrap("Error transcribing audio: ", cause.val)

\* C19: when the audio file is missing or empty at the call of
\* transcribe_audio, the call fails with a transcription error, the model
\* is neither loaded nor invoked, no split call is made, and the file, if
\* there is one, is deleted before the error reaches the caller.
C19_MissingArtifact ==
    /\ pc \in {"tr_single", "tr_pool", "tr_cleanup"}
          => ~FailedOnArtifact /\ modelLoaded
    /\ pc \in {"tr_single", "tr_pool"} => fs["mp3"] = "data"
    /\ FailedOnArtifact
          => /\ ~modelLoaded
             /\ modelCalls = 0
             /\ splitCalls = {}
             /\ pc \in {"tr_except", "tr_ret", "pv_except", "pv_ret", "done"}
    /\ (FailedOnArtifact /\ pc = "tr_ret")
          => /\ taRes = [kind |-> "error", val |-> ArtifactError]
             /\ fs["mp3"] = "absent"
    /\ (FailedOnArtifact /\ pc = "pv_except")
          => /\ exc = Some(ArtifactError)
             /\ fs["mp3"] = "absent"

C19_Witness ==
    /\ pc = "tr_ret"
    /\ cause = Some(ErrEmpty)
    /\ taRes = [kind |-> "error",
                val |-> Wrap("Error transcribing audio: ", ErrEmpty)]
    /\ cleanups = 1
    /\ fs["mp3"] = "absent"
    /\ ~modelLoaded

\* the frame of the session transcript: it changes only at the end of a
\* request that got non-empty text, from the captions or from the model,
\* and a request that fails leaves it as it was
SessionFrame ==
    /\ session # sessionBefore
          => /\ pc = "done"
             /\ entry = "main"
             /\ \/ pvCalls = 0 /\ Truthy(capOut.val) /\ session = capOut.val
                \/ /\ pvCalls = 1
                   /\ pvRes.kind = "ok"
                   /\ pvRes.val # <<>>
                   /\ session = Some(pvRes.val)
    /\ (pc = "done" /\ pvRes.kind = "error") => session = sessionBefore

\* C20: the session transcript is written only when a generate-transcript
\* request succeeds with non-empty text, from captions or from the model; a
\* request that fails at any stage leaves it exactly as it was; and the
\* stored value is never empty or whitespace-only.
C20_SessionOnlyOnSuccess ==
    /\ SessionFrame
    /\ ~session.isNone => Strip(session.val) # <<>>

----------------------------------------------------------------------------
(* C21 *)

\* both metadata sources failed: the API gave no item and yt-dlp raised
BothSourcesFailed ==
    /\ viEnv.api \in {"no_key", "build_error", "execute_error", "no_items"}
    /\ viEnv.ydl = "error"

\* the minimal record: a generated title and the thumbnail URL of the id
Placeholder(id) ==
    [title |-> "generated title", author |-> "Unknown Author", length |-> 0,
     thumbnail_url |-> IF id = VideoId THEN "thumbnail of vid" ELSE ""]

\* C21: for a URL with an extractable video id get_video_info never raises,
\* and when both sources fail it returns the minimal placeholder record
C21_NeverFails ==
    (pc = "vi_ret" /\ viEnv.url = "watch")
        => /\ viRes.kind = "ok"
           /\ BothSourcesFailed => viRes.info = Placeholder(VideoId)

----------------------------------------------------------------------------
(* C22 *)

\* download_audio is between its first statement and its return or handler
InDownload ==
    pc \in {"dl_rot", "ytdlp_try", "req_try", "dl_after", "dl_except", "dl_ok"}

\* C22: the cursor stays within 0..len(proxy_list)-1, the k-th call of
\* get_next_proxy returns proxy_list[(k-1) mod len(proxy_list)], and
\* download_audio has advanced the cursor once for each rotation it began
C22_RoundRobin ==
    /\ proxyIdx \in 0..(Len(ProxyList) - 1)
    /\ proxyIdx = Len(proxyCalls) % Len(ProxyList)
    /\ \A k \in 1..Len(proxyCalls) :
        proxyCalls[k] = ProxyList[((k - 1) % Len(ProxyList)) + 1]
    /\ InDownload => Len(proxyCalls) = rot

\* two full cycles were served and the direct connection came round again
C22_Witness ==
    /\ Len(proxyCalls) = MaxProxyCalls
    /\ proxyCalls[4] = "direct"
    /\ proxyCalls[MaxProxyCalls] = "direct"

----------------------------------------------------------------------------
(* C23 *)

\* the lookup found a track and fetched its entries
Fetched == pc = "cap_ret" /\ lookup.listOk /\ lookup.found /\ lookup.fetchOk

\* t with '.' appended unless it already ends in '.', '!' or '?'
Punctuated(t) ==
    IF t # <<>> /\ t[Len(t)] \in Terminal THEN t ELSE t \o <<".">>

\* the part of t between its leading and its trailing blanks
Trimmed(t) ==
    CHOOSE s \in {SubSeq(t, a, b) : a \in 1..(Len(t) + 1), b \in 0..Len(t)} :
        \E a \in 1..(Len(t) + 1), b \in 0..Len(t) :
            /\ s = SubSeq(t, a, b)
            /\ \A i \in 1..(a - 1) : t[i] = " "
            /\ \A i \in (b + 1)..Len(t) : t[i] = " "
            /\ s = <<>> \/ (s[1] # " " /\ s[Len(s)] # " ")

\* C23 as stated: the text of a fetched track is the single-space join of
\* its entries, each with '.' appended unless it ends in '.', '!' or '?', so
\* that every entry of the output ends in terminal punctuation
C23_EveryEntryPunctuated ==
    Fetched =>
        capOut.val = Some(Join([i \in 1..Len(lookup.entries) |->
                                    Punctuated(lookup.entries[i])]))

\* C23, amended: the text of a fetched track is the single-space join, in
\* track order, of its entries, each trimmed of surrounding blanks and, when
\* something is left that does not end in '.', '!' or '?', extended by '.';
\* an entry that is empty after trimming stays empty
C23_TrimmedThenPunctuated ==
    Fetched =>
        /\ ~capOut.raised
        /\ capOut.val =
            Some(Join([i \in 1..Len(lookup.entries) |->
                        IF Trimmed(lookup.entries[i]) = <<>>
                        THEN <<>>
                        ELSE Punctuated(Trimmed(lookup.entries[i]))]))

\* an entry with blanks around it and an entry that ends in '!'
C23_Witness ==
    /\ Fetched
    /\ lookup.entries = << <<" ", "c", " ">>, <<"b", "!">> >>
    /\ capOut.val = Some(<<"c", ".", " ", "b", "!">>)

----------------------------------------------------------------------------
(* C24 *)

\* a call of the primary method ends on an error that is not the 403
\* signal: the attempt that raised it was followed by no sleep and no
\* further attempt, and the fallback is next, with the proxy unchanged and
\* no exception of download_audio in flight
EndsPrimaryAtOnce ==
    (pc = "ytdlp_try" /\ pc' = "req_try" /\ ret'.kind = "raise"
        /\ ret'.err = ErrYtdlp)
        => /\ att' = att + 1
           /\ sleeps' = sleeps /\ delay' = delay
           /\ calls'[Len(calls')].attempts = Len(sleeps) + 1
           /\ proxyIdx' = proxyIdx /\ rot' = rot
           /\ exc' = exc

\* the step after a failed primary call is the fallback's single attempt,
\* with the proxy of the primary call
FallbackFollows ==
    (pc = "req_try" /\ ret.kind = "raise")
        => /\ Len(calls') = Len(calls) + 1
           /\ calls'[Len(calls')].method = "requests"
           /\ calls'[Len(calls')].attempts = 1
           /\ calls'[Len(calls')].proxy = calls[Len(calls)].proxy
           /\ sleeps' = sleeps /\ exc' = exc

\* the fallback's call raised: control is at the head of the rotation loop
FallbackFailed ==
    pc = "dl_rot" /\ ret.kind = "raise" /\ ret.err = ErrRequests

\* the next rotation begins, with the next proxy
Rotates ==
    /\ pc' = "ytdlp_try"
    /\ rot' = rot + 1
    /\ proxyIdx' = NextIndex(proxyIdx)
    /\ exc' = exc

\* C24 as stated: an error other than the 403 signal ends the call of the
\* strategy after that one attempt, without a sleep, and download_audio goes
\* on to the next strategy with the same proxy, or to the next rotation when
\* the strategy was the last one, and does not fail
C24_AlwaysProceeds ==
    [][/\ EndsPrimaryAtOnce
       /\ FallbackFollows
       /\ FallbackFailed => Rotates]_vars

\* C24, amended: as stated while a rotation remains; after the last strategy
\* of the third rotation the loops are over and download_audio raises the
\* error recorded last
C24_ProceedsWhileRotationsRemain ==
    [][/\ EndsPrimaryAtOnce
       /\ FallbackFollows
       /\ (FallbackFailed /\ rot < ProxyRotations) => Rotates
       /\ (FallbackFailed /\ rot = ProxyRotations)
            => pc' = "dl_after" /\ lastError' = Some(ErrRequests)
                /\ UNCHANGED <<proxyIdx, rot, exc>>]_vars

\* the primary method raised another error than 403 at its first attempt and
\* the fallback is next
C24_Witness ==
    /\ pc = "req_try"
    /\ ret = [kind |-> "raise", err |-> ErrYtdlp]
    /\ att = 1 /\ sleeps = <<>>
    /\ calls[Len(calls)].attempts = 1

----------------------------------------------------------------------------
(* C25 *)

\* the chunk files of distinct segments of the call have distinct paths
PathsDistinct ==
    \A i, j \in DOMAIN chunkPath :
        (i # j /\ chunkPath[i] # NoPath /\ chunkPath[j] # NoPath)
            => chunkPath[i] # chunkPath[j]

\* a step of a worker of the pool
WorkerStep == pc = "tr_pool" /\ pc' = "tr_pool" /\ cst' # cst

\* a worker's step changes the file, the path and the result of its own
\* segment only, and nothing of the service, the parent file or the session
WorkerFrame ==
    WorkerStep
        => /\ \A j \in DOMAIN cst :
                cst'[j] = cst[j]
                    => /\ chunkFs'[j] = chunkFs[j]
                       /\ chunkPath'[j] = chunkPath[j]
                       /\ chunkRes'[j] = chunkRes[j]
           /\ UNCHANGED <<fs, modelLoaded, proxyIdx, session, text, duration>>

\* C25: within one chunked transcribe_audio call the chunk files of distinct
\* segments have distinct paths under every interleaving, so no two workers
\* that run at the same time use the same file, and a worker changes no
\* state besides its own segment's
C25_DisjointWorkers == []PathsDistinct /\ [][WorkerFrame]_vars

\* two workers run at the same time and read the clock in the same second
C25_Witness ==
    \E i, j \in DOMAIN cst :
        /\ i # j
        /\ cst[i] = "running" /\ cst[j] = "running"
        /\ chunkPath[i].stamp = chunkPath[j].stamp
        /\ chunkPath[i].start # chunkPath[j].start

----------------------------------------------------------------------------
(* C26 *)

RECURSIVE AttemptsOf(_, _)
\* the attempts the calls of method m made in this download_audio call
AttemptsOf(cs, m) ==
    IF cs = <<>>
    THEN 0
    ELSE (IF Head(cs).method = m THEN Head(cs).attempts ELSE 0)
            + AttemptsOf(Tail(cs), m)

\* at most 3 rotations, 9 attempts of the primary method and 3 of the
\* fallback
WithinAttemptBounds ==
    /\ rot <= 3
    /\ AttemptsOf(calls, "ytdlp") <= 9
    /\ AttemptsOf(calls, "requests") <= 3

\* process_video has delivered a transcript or raised its error
ProcessVideoEnded == pc = "pv_ret" /\ pvRes.kind \in {"ok", "error"}

\* C26: when every external call returns or raises in finite time, every
\* process_video call ends, with a transcript or with an error, after at
\* most 3 proxy rotations, 9 attempts of the primary strategy and 3 of the
\* fallback
C26_Terminates ==
    /\ []WithinAttemptBounds
    /\ (pc = "pv_call") ~> ProcessVideoEnded

\* a call that ended in an error after every attempt there is
C26_Witness ==
    /\ ProcessVideoEnded
    /\ pvRes.kind = "error"
    /\ rot = 3
    /\ AttemptsOf(calls, "ytdlp") = 9
    /\ AttemptsOf(calls, "requests") = 3


====
